---- MODULE Spec2Model ----
(***************************************************************************)
(* Data-access layer of the horoscope-service dashboard                    *)
(* (utils/database.py) and the customer-detail page that drives its        *)
(* three mutations (pages_content/customer_detail.py).                     *)
(*                                                                         *)
(* The remote store is the pair (customers, subscriptions) plus the        *)
(* reference table ServicePlans.  A date is a day number; the store's ISO  *)
(* text of a date is Iso(d), the placeholder text 'N/A' is NA.  A value    *)
(* that may be None is a sequence of length 0 (None) or 1.                 *)
(***************************************************************************)
EXTENDS Integers, Sequences, FiniteSets, TLC

VARIABLES
    customers,      \* table customers: id -> row
    subscriptions,  \* table subscriptions: rows in the store's arrival order
    today,          \* datetime.now().date(), a day number
    clock,          \* datetime.now() / the store's now(), a timestamp
    cache,          \* st.cache_data: (function, arguments) -> cached outcome
    ret,            \* the last call of an entry point: what the caller saw
    session_state   \* st.session_state: subscription id -> its confirm_cancel flag

vars == <<customers, subscriptions, today, clock, cache, ret, session_state>>

(* ------------------------------ bounds -------------------------------- *)

MaxSubs == 2        \* subscription rows in the store
MaxCreatedAt == 2   \* created_at timestamps of the rows present at start
MaxCount == 16      \* horoscopes generated, and combinations needed
MaxRevenueRows == 2 \* subscription rows behind the revenue metrics
MaxCacheTicks == 11 \* half-minutes of wall time the cache is watched for

(* ------------------------------ values -------------------------------- *)

None == <<>>
Some(x) == <<x>>

Iso(d) == [kind |-> "date", day |-> d]
NA == [kind |-> "N/A", day |-> 0]

\* datetime.strptime(x, '%Y-%m-%d').date(): defined on ISO dates only
strptime_ok(x) == x.kind = "date"
strptime(x) == x.day

CustomerIds == <<"c1", "c2">>

CustomerSet == {CustomerIds[i] : i \in 1..Len(CustomerIds)}

ServicePlans ==
    [p \in {"mensile", "prova"} |->
        IF p = "mensile"
        THEN [id |-> p, name |-> "Mensile", price |-> 10, duration_days |-> 30,
              is_trial |-> FALSE, is_active |-> TRUE]
        ELSE [id |-> p, name |-> "Prova", price |-> 0, duration_days |-> 7,
              is_trial |-> TRUE, is_active |-> TRUE]]

PlanIds == DOMAIN ServicePlans

\* a plan id that resolves to no row of service_plans (a deleted plan)
PlanRefs == PlanIds \cup {"deleted"}

Statuses == {"active", "expired", "cancelled"}

\* a customer row carries the timestamp of its registration; a subscription
\* opened in the same transaction carries the same timestamp
InitialCustomers ==
    [c \in CustomerSet |->
        [id |-> c, name |-> "Ada", phone_number |-> "39", birth_place |-> "Roma",
         birth_date |-> Iso(0), zodiac_sign |-> "Ariete", ascendant |-> "Leone",
         gender |-> "F", created_at |-> 1]]

\* the shapes of the subscription rows the store holds at start; end_off is the
\* end date relative to today, and only a row that is flagged active runs into
\* the future
SubShapes ==
    {sh \in [customer_id : CustomerSet, service_plan_id : PlanRefs, is_active : BOOLEAN,
             status : Statuses, end_off : {-1, 0, 10}, created_at : 1..MaxCreatedAt] :
        sh.end_off >= 0 => (sh.is_active /\ sh.status = "active")}

\* end dates around the 7-day window of get_expiring_subscriptions
ExpiringOffsets == {-1, 0, 3, 4, 7, 8}

\* rows in every combination of the flags the expiring query tests, with or
\* without a plan behind the reference
ExpiringShapes ==
    [customer_id : CustomerSet, service_plan_id : {"mensile", "deleted"},
     is_active : BOOLEAN, status : Statuses, end_off : ExpiringOffsets,
     created_at : {MaxCreatedAt}]

MkSub(i, sh, day) ==
    [id |-> i, customer_id |-> sh.customer_id, service_plan_id |-> sh.service_plan_id,
     start_date |-> day - 20, end_date |-> day + sh.end_off,
     is_active |-> sh.is_active, status |-> sh.status,
     payment_status |-> "paid", payment_reference |-> "", renewal_enabled |-> FALSE,
     created_at |-> sh.created_at,
     cancelled_at |-> IF sh.status = "cancelled" THEN Some(sh.created_at) ELSE None,
     cancelled_reason |-> IF sh.status = "cancelled" THEN Some("") ELSE None]

(* ----------------------- the store's query layer ---------------------- *)

\* the to-one embed service_plans(...): the plan's row, or null
EmbedPlan(sub) ==
    IF sub.service_plan_id \in PlanIds THEN Some(ServicePlans[sub.service_plan_id]) ELSE None

\* the to-one embed customers(...): the customer's row, or null
EmbedCustomer(sub) ==
    IF sub.customer_id \in DOMAIN customers THEN Some(customers[sub.customer_id]) ELSE None

WithPlan(sub) == [sub |-> sub, service_plans |-> EmbedPlan(sub)]

MapSeq(s, F(_)) == [i \in 1..Len(s) |-> F(s[i])]

CountSeq(s, P(_)) == Len(SelectSeq(s, P))

RECURSIVE SeqToSet(_)
SeqToSet(s) == IF s = <<>> THEN {} ELSE {Head(s)} \cup SeqToSet(Tail(s))

(* --------------------------- outcomes --------------------------------- *)

\* what a call of an entry point gives its caller: the value returned, whether
\* st.error was called, whether an exception left the function, and the store
\* queries of the call that raised
Outcome(v, rep, rsd, fld) == [val |-> v, reported |-> rep, raised |-> rsd, failed |-> fld]

Returned(v) == Outcome(v, FALSE, FALSE, {})

\* the except branch of an entry point: st.error(...) and the default value
Except(default, fld) == Outcome(default, TRUE, FALSE, fld)

EmptyDataFrame == <<>>

\* queries run in order and the first that raises ends the try block
RECURSIVE FirstRaised(_, _)
FirstRaised(queries, fail) ==
    IF queries = <<>> THEN {}
    ELSE IF Head(queries) \in fail THEN {Head(queries)}
    ELSE FirstRaised(Tail(queries), fail)

(* ------------------------ get_customer_stats -------------------------- *)

StatsQueries == {"customers", "active_subs", "expired_subs"}

StatsDefault ==
    [totale_clienti |-> 0, clienti_trial |-> 0, clienti_attivi |-> 0, clienti_scaduti |-> 0]

IsActiveSub(s) ==
    /\ s.is_active
    /\ s.status = "active"
    /\ s.end_date >= today
    /\ EmbedPlan(s) # None          \* service_plans!inner

\* the rows of the 'Abbonamenti attivi' query
active_subs == MapSeq(SelectSeq(subscriptions, IsActiveSub), WithPlan)

IsExpiredSub(s) == s.status = "expired"

\* the rows of the 'Abbonamenti scaduti' query
expired_subs == SelectSeq(subscriptions, IsExpiredSub)

IsTrialRow(row) == row.service_plans # None /\ row.service_plans[1].is_trial

IsPayingRow(row) == ~IsTrialRow(row)

\* mutant of get_customer_stats: no try/except around the queries
get_customer_stats_NoTry(fail) ==
    IF fail \cap StatsQueries # {}
    THEN Outcome(StatsDefault, FALSE, TRUE,
                 FirstRaised(<<"customers", "active_subs", "expired_subs">>, fail))
    ELSE Returned([totale_clienti |-> Cardinality(DOMAIN customers),
                   clienti_trial |-> Len(SelectSeq(active_subs, IsTrialRow)),
                   clienti_attivi |-> Len(SelectSeq(active_subs, IsPayingRow)),
                   clienti_scaduti |-> Len(expired_subs)])

get_customer_stats(fail) ==
    IF fail \cap StatsQueries # {}
    THEN Except(StatsDefault, FirstRaised(<<"customers", "active_subs", "expired_subs">>, fail))
    ELSE Returned([totale_clienti |-> Cardinality(DOMAIN customers),
                   clienti_trial |-> CountSeq(active_subs, IsTrialRow),
                   clienti_attivi |-> CountSeq(active_subs, IsPayingRow),
                   clienti_scaduti |-> Len(expired_subs)])

(* --------------------- get_all_customers_details ---------------------- *)

\* max(subs, key=created_at): the first row with the greatest key
RECURSIVE MaxByCreatedAt(_, _)
MaxByCreatedAt(subs, best) ==
    IF subs = <<>> THEN best
    ELSE MaxByCreatedAt(Tail(subs),
            IF Head(subs).sub.created_at > best.sub.created_at THEN Head(subs) ELSE best)

latest_sub(subs) == IF subs = <<>> THEN None ELSE Some(MaxByCreatedAt(Tail(subs), Head(subs)))

\* the embed subscriptions(*, service_plans(*)) of one customer
SubsOf(c) ==
    LET Mine(s) == s.customer_id = c
    IN  MapSeq(SelectSeq(subscriptions, Mine), WithPlan)

\* latest_sub.get('service_plans', {}).get(...) on a null embed: None has no .get
DetailRowRaises(c) ==
    LET latest == latest_sub(SubsOf(c))
    IN  latest # None /\ latest[1].service_plans = None

DetailRow(c) ==
    LET latest == latest_sub(SubsOf(c))
        cust == customers[c]
    IN  IF latest = None
        THEN [id |-> c, nome |-> cust.name, telefono |-> cust.phone_number,
              segno |-> cust.zodiac_sign, ascendente |-> cust.ascendant,
              tipo_abbonamento |-> "Nessuno", stato_abbonamento |-> "Nessuno",
              is_trial |-> FALSE, data_inizio |-> NA, data_scadenza |-> NA,
              is_active |-> FALSE, data_registrazione |-> cust.created_at]
        ELSE [id |-> c, nome |-> cust.name, telefono |-> cust.phone_number,
              segno |-> cust.zodiac_sign, ascendente |-> cust.ascendant,
              tipo_abbonamento |-> latest[1].service_plans[1].name,
              stato_abbonamento |-> latest[1].sub.status,
              is_trial |-> latest[1].service_plans[1].is_trial,
              data_inizio |-> Iso(latest[1].sub.start_date),
              data_scadenza |-> Iso(latest[1].sub.end_date),
              is_active |-> latest[1].sub.is_active,
              data_registrazione |-> cust.created_at]

\* the customers of the response, in the store's order
CustomerRows == SelectSeq(CustomerIds, LAMBDA c : c \in DOMAIN customers)

get_all_customers_details(fail) ==
    IF "customers_details" \in fail
    THEN Except(EmptyDataFrame, {"customers_details"})
    ELSE IF \E i \in 1..Len(CustomerRows) : DetailRowRaises(CustomerRows[i])
    THEN Except(EmptyDataFrame, {})
    ELSE Returned(MapSeq(CustomerRows, DetailRow))

(* ----------------------- get_filtered_customers ----------------------- *)

FilterTypes == {"totale", "attivi", "trial", "scaduti"}

RowIsAttivo(r) == r.is_active = TRUE /\ r.stato_abbonamento = "active" /\ r.is_trial = FALSE

RowIsTrial(r) == r.is_active = TRUE /\ r.stato_abbonamento = "active" /\ r.is_trial = TRUE

RowIsScaduto(r) == r.stato_abbonamento = "expired"

WithGiorni(r) ==
    [row |-> r,
     giorni_rimanenti |->
        IF r.data_scadenza # NA THEN strptime(r.data_scadenza) - today ELSE 0]

\* the lambda of 'giorni_rimanenti' raises on a date text strptime cannot parse
GiorniRaises(r) == r.data_scadenza # NA /\ ~strptime_ok(r.data_scadenza)

NoGiorni(r) == [row |-> r, giorni_rimanenti |-> 0]

\* get_filtered_customers on the outcome d of its call of get_all_customers_details
filter_customers(filter_type, d) ==
    LET df == d.val
        filtered ==
            CASE filter_type = "attivi" -> SelectSeq(df, RowIsAttivo)
              [] filter_type = "trial" -> SelectSeq(df, RowIsTrial)
              [] filter_type = "scaduti" -> SelectSeq(df, RowIsScaduto)
              [] OTHER -> df
    IN  IF df = EmptyDataFrame \/ filter_type \notin {"attivi", "trial", "scaduti"}
        THEN Outcome(MapSeq(df, NoGiorni), d.reported, FALSE, d.failed)
        ELSE IF filter_type \in {"attivi", "trial"}
        THEN IF \E i \in 1..Len(filtered) : GiorniRaises(filtered[i])
             THEN Outcome(EmptyDataFrame, d.reported, TRUE, d.failed)
             ELSE Outcome(MapSeq(filtered, WithGiorni), d.reported, FALSE, d.failed)
        ELSE Outcome(MapSeq(filtered, NoGiorni), d.reported, FALSE, d.failed)

get_filtered_customers(filter_type, fail) ==
    filter_customers(filter_type, get_all_customers_details(fail))

\* what latest_sub.get('end_date', 'N/A') yields on a row whose end_date is null
NullText == [kind |-> "null", day |-> 0]

\* the texts 'data_scadenza' can hold: a date, the 'N/A' of the default, the
\* None of a null column, the text of a timestamp
EndDateTexts(day) == {Iso(day + 10), Iso(day), NA, NullText, [kind |-> "timestamp", day |-> day]}

FrameShapes(day) ==
    [stato_abbonamento : {"active", "expired"}, is_trial : BOOLEAN,
     data_scadenza : EndDateTexts(day)]

\* a row of the DataFrame of get_all_customers_details for a customer whose
\* latest subscription is flagged active
FrameRow(c, sh) ==
    [id |-> c, nome |-> "Ada", telefono |-> "39", segno |-> "Ariete", ascendente |-> "Leone",
     tipo_abbonamento |-> IF sh.is_trial THEN "Prova" ELSE "Mensile",
     stato_abbonamento |-> sh.stato_abbonamento, is_trial |-> sh.is_trial,
     data_inizio |-> Iso(0), data_scadenza |-> sh.data_scadenza,
     is_active |-> TRUE, data_registrazione |-> 1]

(* ------------------------ get_horoscopes_today ------------------------ *)

\* table daily_horoscopes (written by the generator, which is not in this program)
DailyHoroscopes(day) ==
    << [data_oroscopo |-> Iso(day), segno |-> "Ariete", ascendente |-> "Leone"],
       [data_oroscopo |-> Iso(day - 1), segno |-> "Ariete", ascendente |-> "Leone"] >>

HoroscopesTodayDefault == [generati |-> 0, necessari |-> 0, percentuale_successo |-> 0]

\* the (sign, ascendant) pairs the fallback collects: every customer with both set
FallbackCombinations ==
    {<<customers[c].zodiac_sign, customers[c].ascendant>> :
        c \in {x \in DOMAIN customers :
                 customers[x].zodiac_sign # "" /\ customers[x].ascendant # ""}}

\* view active_customers_zodiac_combinations: the pairs of the customers that
\* hold a currently-active subscription
ActiveCombinationsView ==
    {<<customers[c].zodiac_sign, customers[c].ascendant>> :
        c \in {x \in DOMAIN customers :
                 /\ customers[x].zodiac_sign # "" /\ customers[x].ascendant # ""
                 /\ \E i \in 1..Len(subscriptions) :
                       /\ subscriptions[i].customer_id = x
                       /\ subscriptions[i].is_active
                       /\ subscriptions[i].status = "active"
                       /\ subscriptions[i].end_date >= today}}

\* mutant of success_rate: the digits after the first decimal are cut off
success_rate_Truncated(generated_count, total_needed) ==
    IF total_needed > 0
    THEN (generated_count * 1000) \div total_needed
    ELSE 0

\* round(generated / needed * 100, 1), in tenths of a percent: the nearest
\* tenth, and the even one when the quotient lies halfway between two
success_rate(generated_count, total_needed) ==
    IF total_needed > 0
    THEN LET q == (generated_count * 1000) \div total_needed
             r == (generated_count * 1000) % total_needed
         IN  IF 2 * r < total_needed THEN q
             ELSE IF 2 * r > total_needed THEN q + 1
             ELSE IF q % 2 = 0 THEN q ELSE q + 1
    ELSE 0

get_horoscopes_today(fail) ==
    LET IsToday(h) == h.data_oroscopo = Iso(today)
        generated_count == Len(SelectSeq(DailyHoroscopes(today), IsToday))
        total_needed ==
            IF "zodiac_view" \in fail
            THEN Cardinality(FallbackCombinations)
            ELSE Cardinality(ActiveCombinationsView)
    IN  IF "daily_horoscopes" \in fail
        THEN Except(HoroscopesTodayDefault, {"daily_horoscopes"})
        ELSE IF {"zodiac_view", "customers_zodiac"} \subseteq fail
        THEN Except(HoroscopesTodayDefault, {"zodiac_view", "customers_zodiac"})
        ELSE Outcome([generati |-> generated_count, necessari |-> total_needed,
                      percentuale_successo |-> success_rate(generated_count, total_needed)],
                     FALSE, FALSE, fail \cap {"zodiac_view"})

\* render_horoscope_stats, the delta of 'Completamento': 'Completato' when the
\* percentage (in tenths) is at least 100, else 'Mancano' necessari - generati
delta_text(stats) ==
    IF stats.percentuale_successo >= 1000
    THEN [completato |-> TRUE, mancano |-> 0]
    ELSE [completato |-> FALSE, mancano |-> stats.necessari - stats.generati]

(* --------------------- get_expiring_subscriptions --------------------- *)

ExpiringDefault == [oggi |-> 0, tre_giorni |-> 0, sette_giorni |-> 0, dettagli |-> <<>>]

\* mutant of IsExpiringSub: the query lacks .eq('status', 'active')
IsExpiringSub_AnyStatus(s) ==
    /\ s.is_active
    /\ s.end_date >= today
    /\ s.end_date <= today + 7

IsExpiringSub(s) ==
    /\ s.is_active
    /\ s.status = "active"
    /\ s.end_date >= today
    /\ s.end_date <= today + 7

\* the rows of the fallback query, with both embeds
expiring ==
    LET Both(s) == [sub |-> s, customers |-> EmbedCustomer(s), service_plans |-> EmbedPlan(s)]
    IN  MapSeq(SelectSeq(subscriptions, IsExpiringSub), Both)

\* sub.get('customers', {}).get(...) / sub.get('service_plans', {}).get(...) on null
ExpiringRowRaises(r) == r.customers = None \/ r.service_plans = None

ExpiringDetail(r) ==
    [name |-> r.customers[1].name, numero |-> r.customers[1].phone_number,
     end_date |-> Iso(r.sub.end_date), tipo_subscription |-> r.service_plans[1].name,
     giorni_rimasti |-> strptime(Iso(r.sub.end_date)) - today]

\* view expiring_subscriptions_7_days: one row per expiring subscription, null
\* names left null by the view's outer joins
ExpiringViewRow(r) ==
    [name |-> IF r.customers = None THEN "null" ELSE r.customers[1].name,
     numero |-> IF r.customers = None THEN "null" ELSE r.customers[1].phone_number,
     end_date |-> Iso(r.sub.end_date),
     tipo_subscription |-> IF r.service_plans = None THEN "null" ELSE r.service_plans[1].name,
     giorni_rimasti |-> r.sub.end_date - today]

CustomerIndex(c) == CHOOSE i \in 1..Len(CustomerIds) : CustomerIds[i] = c

\* the view's order: days remaining ascending, then customer id
ViewBefore(a, b) ==
    \/ a.sub.end_date < b.sub.end_date
    \/ /\ a.sub.end_date = b.sub.end_date
       /\ CustomerIndex(a.sub.customer_id) <= CustomerIndex(b.sub.customer_id)

RECURSIVE ViewInsert(_, _)
ViewInsert(r, sorted) ==
    IF sorted = <<>> THEN <<r>>
    ELSE IF ViewBefore(Head(sorted), r)
    THEN <<Head(sorted)>> \o ViewInsert(r, Tail(sorted))
    ELSE <<r>> \o sorted

RECURSIVE ViewOrder(_)
ViewOrder(rows) ==
    IF rows = <<>> THEN <<>>
    ELSE ViewInsert(rows[Len(rows)], ViewOrder(SubSeq(rows, 1, Len(rows) - 1)))

ExpiringView == MapSeq(ViewOrder(expiring), ExpiringViewRow)

IsOggi(d) == d.giorni_rimasti = 0

\* mutant of IsTreGiorni: the rows of today are left to 'oggi'
IsTreGiorni_AfterToday(d) == d.giorni_rimasti > 0 /\ d.giorni_rimasti <= 3

IsTreGiorni(d) == d.giorni_rimasti <= 3

Buckets(details) ==
    [oggi |-> Len(SelectSeq(details, IsOggi)),
     tre_giorni |-> Len(SelectSeq(details, IsTreGiorni)),
     sette_giorni |-> Len(details),
     dettagli |-> details]

get_expiring_subscriptions(fail) ==
    IF "expiring_view" \notin fail
    THEN Returned(Buckets(ExpiringView))
    ELSE IF "expiring_subs" \in fail
    THEN Except(ExpiringDefault, {"expiring_view", "expiring_subs"})
    ELSE IF \E i \in 1..Len(expiring) : ExpiringRowRaises(expiring[i])
    THEN Except(ExpiringDefault, {"expiring_view"})
    ELSE Outcome(Buckets(MapSeq(expiring, ExpiringDetail)), FALSE, FALSE, {"expiring_view"})

(* --------------- get_all_horoscopes, get_horoscopes_by_date ----------- *)

get_all_horoscopes(days, fail) ==
    LET Recent(h) == strptime(h.data_oroscopo) >= today - days
    IN  IF "daily_horoscopes" \in fail
        THEN Except(EmptyDataFrame, {"daily_horoscopes"})
        ELSE Returned(SelectSeq(DailyHoroscopes(today), Recent))

get_horoscopes_by_date(date_str, fail) ==
    LET OnDate(h) == h.data_oroscopo = date_str
    IN  IF "daily_horoscopes" \in fail
        THEN Except(EmptyDataFrame, {"daily_horoscopes"})
        ELSE Returned(SelectSeq(DailyHoroscopes(today), OnDate))

(* -------------------------- get_customer_by_id ------------------------ *)

\* .single() raises when no row has the id
get_customer_by_id(customer_id, fail) ==
    IF "customer" \in fail \/ customer_id \notin DOMAIN customers
    THEN Except(None, {"customer"})
    ELSE Returned(Some(customers[customer_id]))

(* ------------------ get_customer_subscriptions_history ---------------- *)

\* .order('created_at', desc=True): insertion of each row before the first row
\* that is not newer
RECURSIVE InsertDesc(_, _)
InsertDesc(row, sorted) ==
    IF sorted = <<>> THEN <<row>>
    ELSE IF Head(sorted).sub.created_at >= row.sub.created_at
    THEN <<Head(sorted)>> \o InsertDesc(row, Tail(sorted))
    ELSE <<row>> \o sorted

RECURSIVE OrderDesc(_)
OrderDesc(rows) ==
    IF rows = <<>> THEN <<>> ELSE InsertDesc(rows[Len(rows)], OrderDesc(SubSeq(rows, 1, Len(rows) - 1)))

HistoryRowRaises(r) == r.service_plans = None

HistoryRow(r) ==
    [id |-> r.sub.id, piano |-> r.service_plans[1].name,
     is_trial |-> r.service_plans[1].is_trial, prezzo |-> r.service_plans[1].price,
     durata_giorni |-> r.service_plans[1].duration_days,
     data_inizio |-> Iso(r.sub.start_date), data_fine |-> Iso(r.sub.end_date),
     stato |-> r.sub.status, is_active |-> r.sub.is_active,
     payment_status |-> r.sub.payment_status,
     payment_reference |-> r.sub.payment_reference, created_at |-> r.sub.created_at]

get_customer_subscriptions_history(customer_id, fail) ==
    LET data == OrderDesc(SubsOf(customer_id))
    IN  IF "subscriptions" \in fail
        THEN Except(EmptyDataFrame, {"subscriptions"})
        ELSE IF \E i \in 1..Len(data) : HistoryRowRaises(data[i])
        THEN Except(EmptyDataFrame, {})
        ELSE Returned(MapSeq(data, HistoryRow))

(* ------------------- get_customer_horoscopes_history ------------------ *)

get_customer_horoscopes_history(customer_id, days, fail) ==
    LET c == get_customer_by_id(customer_id, fail)
        Mine(h) == /\ h.segno = c.val[1].zodiac_sign
                   /\ h.ascendente = c.val[1].ascendant
                   /\ strptime(h.data_oroscopo) >= today - days
    IN  IF c.val = None
        THEN Outcome(EmptyDataFrame, c.reported, FALSE, c.failed)
        ELSE IF c.val[1].zodiac_sign = "" \/ c.val[1].ascendant = ""
        THEN Returned(EmptyDataFrame)
        ELSE IF "daily_horoscopes" \in fail
        THEN Except(EmptyDataFrame, {"daily_horoscopes"})
        ELSE Returned(SelectSeq(DailyHoroscopes(today), Mine))

(* ------------------------ get_customer_timeline ----------------------- *)

\* the text of a timestamp and the text of a date, as list.sort compares them
Stamp(t) == [kind |-> "timestamp", day |-> t]

RECURSIVE SubEvents(_)
SubEvents(rows) ==
    IF rows = <<>> THEN <<>>
    ELSE <<[data |-> Stamp(Head(rows).created_at), tipo |-> "abbonamento_inizio"]>>
         \o (IF Head(rows).stato = "expired"
             THEN <<[data |-> Head(rows).data_fine, tipo |-> "abbonamento_scaduto"]>>
             ELSE <<>>)
         \o SubEvents(Tail(rows))

\* the order of str on the two texts: 'YYYY-MM-DD' is a proper prefix of the
\* timestamp of the same day, hence smaller than it
DataGE(a, b) ==
    \/ a.day > b.day
    \/ a.day = b.day /\ (a.kind = b.kind \/ a.kind = "timestamp")

\* timeline.sort(key=data, reverse=True): stable, greatest first
RECURSIVE InsertEvent(_, _)
InsertEvent(e, sorted) ==
    IF sorted = <<>> THEN <<e>>
    ELSE IF DataGE(Head(sorted).data, e.data)
    THEN <<Head(sorted)>> \o InsertEvent(e, Tail(sorted))
    ELSE <<e>> \o sorted

RECURSIVE SortEvents(_)
SortEvents(es) ==
    IF es = <<>> THEN <<>> ELSE InsertEvent(es[Len(es)], SortEvents(SubSeq(es, 1, Len(es) - 1)))

get_customer_timeline(customer_id, fail) ==
    LET c == get_customer_by_id(customer_id, fail)
        h == get_customer_subscriptions_history(customer_id, fail)
        first == IF c.val = None THEN <<>>
                 ELSE <<[data |-> Stamp(c.val[1].created_at), tipo |-> "registrazione"]>>
    IN  Outcome(SortEvents(first \o SubEvents(h.val)),
                c.reported \/ h.reported, FALSE, c.failed \cup h.failed)

(* -------------------------- revenue metrics ---------------------------- *)

\* get_mrr, get_arr, get_arpu and get_stats_summary are imported by
\* pages_content/statistics.py from utils.database; amounts are in cents, and
\* the prices and durations below divide without a remainder

RevenuePrices == {10, 25}

RevenueDurations == {-30, 0, 30, 60}

RevenueRows ==
    [customer_id : CustomerSet, is_active : BOOLEAN, is_trial : BOOLEAN,
     price : RevenuePrices, duration_days : RevenueDurations]

IsActivePaying(s) == s.is_active /\ ~s.is_trial

\* mutant of normalized_price: the plan price is taken without the 30-day scaling
normalized_price_Unscaled(s) == s.price * 100

\* normalized = price * (30 / duration_days)
normalized_price(s) == (s.price * 100 * 30) \div s.duration_days

\* the sum over the active paying rows; a row whose plan has no positive duration
\* is left out of the sum and counted
RECURSIVE compute_mrr(_)
compute_mrr(subs) ==
    IF subs = <<>> THEN [mrr |-> 0, excluded |-> 0]
    ELSE LET s == Head(subs)
             rest == compute_mrr(Tail(subs))
         IN  IF ~IsActivePaying(s) THEN rest
             ELSE IF s.duration_days <= 0
             THEN [rest EXCEPT !.excluded = @ + 1]
             ELSE [rest EXCEPT !.mrr = @ + normalized_price(s)]

compute_arr(mrr) == mrr * 12

active_paying_count(subs) ==
    Cardinality({subs[i].customer_id : i \in {j \in 1..Len(subs) : IsActivePaying(subs[j])}})

\* mutant of compute_arpu: the revenue is not divided by the customers
compute_arpu_Undivided(mrr, count) == mrr

compute_arpu(mrr, count) == IF count > 0 THEN mrr \div count ELSE 0

\* the dictionary render_main_kpis reads with stats.get('mrr', 0), ('arr', 0), ('arpu', 0)
get_stats_summary(subs) ==
    LET m == compute_mrr(subs)
    IN  [mrr |-> m.mrr, excluded |-> m.excluded, arr |-> compute_arr(m.mrr),
         arpu |-> compute_arpu(m.mrr, active_paying_count(subs))]

(* --------------------- get_available_service_plans -------------------- *)

\* .eq('is_active', True).order('price'); the two plans have different prices
get_available_service_plans(fail) ==
    LET ByPrice == <<ServicePlans["prova"], ServicePlans["mensile"]>>
        Active(p) == p.is_active
    IN  IF "service_plans" \in fail
        THEN Except(EmptyDataFrame, {"service_plans"})
        ELSE Returned(SelectSeq(ByPrice, Active))

(* ----------------------------- mutations ------------------------------ *)

\* .update(data).eq('id', id): every row with the id takes the payload's fields
ApplyUpdate(row, data) == [f \in DOMAIN row |-> IF f \in DOMAIN data THEN data[f] ELSE row[f]]

\* the store after update_customer, and what the caller gets
update_customer(customer_id, data, fail) ==
    IF "update_customers" \in fail
    THEN [out |-> Except(FALSE, {"update_customers"}), customers |-> customers]
    ELSE [out |-> Returned(TRUE),
          customers |-> [c \in DOMAIN customers |->
                            IF c = customer_id THEN ApplyUpdate(customers[c], data)
                            ELSE customers[c]]]

\* mutant of cancel_subscription: the update lacks its .eq('id', ...) filter
cancel_subscription_NoFilter(subscription_id, reason, t, fail) ==
    LET data == [is_active |-> FALSE, status |-> "cancelled",
                 cancelled_at |-> Some(t), cancelled_reason |-> Some(reason)]
        Cancelled(s) == ApplyUpdate(s, data)
    IN  IF "update_subscriptions" \in fail
        THEN [out |-> Except(FALSE, {"update_subscriptions"}), subscriptions |-> subscriptions]
        ELSE [out |-> Returned(TRUE), subscriptions |-> MapSeq(subscriptions, Cancelled)]

\* the store after cancel_subscription at time t, and what the caller gets
cancel_subscription(subscription_id, reason, t, fail) ==
    LET data == [is_active |-> FALSE, status |-> "cancelled",
                 cancelled_at |-> Some(t), cancelled_reason |-> Some(reason)]
        Cancelled(s) == IF s.id = subscription_id THEN ApplyUpdate(s, data) ELSE s
    IN  IF "update_subscriptions" \in fail
        THEN [out |-> Except(FALSE, {"update_subscriptions"}), subscriptions |-> subscriptions]
        ELSE [out |-> Returned(TRUE), subscriptions |-> MapSeq(subscriptions, Cancelled)]

\* mutant of NewSubscription: the end date ignores the plan's duration
NewSubscription_ThirtyDays(customer_id, service_plan_id, payment_reference, duration, t) ==
    [id |-> Len(subscriptions) + 1, customer_id |-> customer_id,
     service_plan_id |-> service_plan_id,
     start_date |-> today, end_date |-> today + 30,
     is_active |-> TRUE, status |-> "active", payment_status |-> "paid",
     payment_reference |-> payment_reference, renewal_enabled |-> FALSE,
     created_at |-> t, cancelled_at |-> None, cancelled_reason |-> None]

\* the row the insert of create_manual_subscription adds; id and created_at are
\* the store's defaults (a fresh id, now())
NewSubscription(customer_id, service_plan_id, payment_reference, duration, t) ==
    [id |-> Len(subscriptions) + 1, customer_id |-> customer_id,
     service_plan_id |-> service_plan_id,
     start_date |-> today, end_date |-> today + duration,
     is_active |-> TRUE, status |-> "active", payment_status |-> "paid",
     payment_reference |-> payment_reference, renewal_enabled |-> FALSE,
     created_at |-> t, cancelled_at |-> None, cancelled_reason |-> None]

\* mutant of create_manual_subscription: a plan id that resolves to no row is not
\* noticed and the default duration of plan.data.get('duration_days', 30) is used
create_manual_subscription_NoPlanCheck(customer_id, service_plan_id, payment_reference, t, fail) ==
    IF "service_plans" \in fail
    THEN [out |-> Except(FALSE, {"service_plans"}), subscriptions |-> subscriptions]
    ELSE IF "insert_subscriptions" \in fail
    THEN [out |-> Except(FALSE, {"insert_subscriptions"}), subscriptions |-> subscriptions]
    ELSE [out |-> Returned(TRUE),
          subscriptions |->
              Append(subscriptions,
                     NewSubscription(customer_id, service_plan_id, payment_reference,
                                     IF service_plan_id \in PlanIds
                                     THEN ServicePlans[service_plan_id].duration_days
                                     ELSE 30, t))]

\* the store after create_manual_subscription at time t, and what the caller gets;
\* .single() raises when the plan id resolves to no row
create_manual_subscription(customer_id, service_plan_id, payment_reference, t, fail) ==
    IF "service_plans" \in fail \/ service_plan_id \notin PlanIds
    THEN [out |-> Except(FALSE, {"service_plans"}), subscriptions |-> subscriptions]
    ELSE IF "insert_subscriptions" \in fail
    THEN [out |-> Except(FALSE, {"insert_subscriptions"}), subscriptions |-> subscriptions]
    ELSE [out |-> Returned(TRUE),
          subscriptions |->
              Append(subscriptions,
                     NewSubscription(customer_id, service_plan_id, payment_reference,
                                     ServicePlans[service_plan_id].duration_days, t))]

(* ------------------------------ inputs -------------------------------- *)

\* the payload render_edit_customer builds from its form
Updates ==
    [name : {"Bea"}, phone_number : {"39"}, birth_place : {"Roma"},
     ascendant : {"Leone", ""}, gender : {"F"}]

\* the data argument of update_customer: any dict; the form's payloads, and one
\* that carries keys the form does not have
Payloads == Updates \cup {[name |-> "Bea", zodiac_sign |-> "Toro", birth_date |-> Iso(1)]}

Reasons == {"", "troppo caro"}

PaymentRefs == {"", "BON-1"}

\* ids a caller can pass: those of the store and one that names no row
CustomerArgs == {CustomerIds[1], "nobody"}

SubscriptionArgs == 1..(Len(subscriptions) + 1)

FailSets(queries) == {{}} \cup {{q} : q \in queries} \cup {queries}

(* ------------------------------ calls --------------------------------- *)

Call(op, arg, out) == ret' = [op |-> op, arg |-> arg, out |-> out]

NoCall == [op |-> "none", arg |-> <<>>, out |-> Returned(<<>>)]

\* the read functions without the cache in front
ReadOps ==
    {"get_customer_stats", "get_horoscopes_today", "get_expiring_subscriptions",
     "get_all_customers_details", "get_filtered_customers", "get_all_horoscopes",
     "get_horoscopes_by_date", "get_customer_by_id", "get_customer_subscriptions_history",
     "get_customer_horoscopes_history", "get_customer_timeline",
     "get_available_service_plans"}

WriteOps == {"update_customer", "cancel_subscription", "create_manual_subscription"}

Read(op, arg, fail) ==
    CASE op = "get_customer_stats" -> get_customer_stats(fail)
      [] op = "get_horoscopes_today" -> get_horoscopes_today(fail)
      [] op = "get_expiring_subscriptions" -> get_expiring_subscriptions(fail)
      [] op = "get_all_customers_details" -> get_all_customers_details(fail)
      [] op = "get_filtered_customers" -> get_filtered_customers(arg[1], fail)
      [] op = "get_all_horoscopes" -> get_all_horoscopes(arg[1], fail)
      [] op = "get_horoscopes_by_date" -> get_horoscopes_by_date(arg[1], fail)
      [] op = "get_customer_by_id" -> get_customer_by_id(arg[1], fail)
      [] op = "get_customer_subscriptions_history" ->
            get_customer_subscriptions_history(arg[1], fail)
      [] op = "get_customer_horoscopes_history" ->
            get_customer_horoscopes_history(arg[1], arg[2], fail)
      [] op = "get_customer_timeline" -> get_customer_timeline(arg[1], fail)
      [] op = "get_available_service_plans" -> get_available_service_plans(fail)

\* the store queries a read function can issue
QueriesOf(op) ==
    CASE op = "get_customer_stats" -> StatsQueries
      [] op = "get_horoscopes_today" -> {"daily_horoscopes", "zodiac_view", "customers_zodiac"}
      [] op = "get_expiring_subscriptions" -> {"expiring_view", "expiring_subs"}
      [] op \in {"get_all_customers_details", "get_filtered_customers"} -> {"customers_details"}
      [] op \in {"get_all_horoscopes", "get_horoscopes_by_date"} -> {"daily_horoscopes"}
      [] op = "get_customer_by_id" -> {"customer"}
      [] op = "get_customer_subscriptions_history" -> {"subscriptions"}
      [] op = "get_customer_horoscopes_history" -> {"customer", "daily_horoscopes"}
      [] op = "get_customer_timeline" -> {"customer", "subscriptions"}
      [] op = "get_available_service_plans" -> {"service_plans"}

\* the arguments the pages pass
ArgsOf(op) ==
    CASE op = "get_filtered_customers" -> {<<ft>> : ft \in FilterTypes}
      [] op = "get_all_horoscopes" -> {<<7>>}
      [] op = "get_horoscopes_by_date" -> {<<Iso(today)>>}
      [] op \in {"get_customer_by_id", "get_customer_subscriptions_history",
                 "get_customer_timeline"} -> {<<c>> : c \in CustomerArgs}
      [] op = "get_customer_horoscopes_history" -> {<<c, 30>> : c \in CustomerArgs}
      [] OTHER -> {<<>>}

StoreUnchanged == UNCHANGED <<customers, subscriptions, today, clock>>

\* the percentage of get_horoscopes_today for given counts
CallSuccessRate ==
    /\ ret.op = "none"
    /\ \E generated_count \in 0..MaxCount, total_needed \in 0..MaxCount :
          Call("success_rate", <<generated_count, total_needed>>,
               Returned(success_rate(generated_count, total_needed)))
    /\ StoreUnchanged
    /\ UNCHANGED <<cache, session_state>>

\* the body of get_filtered_customers after its read of the details, on a
\* DataFrame of up to one row per customer
CallFilterFrame ==
    /\ ret.op = "none"
    /\ \E filter_type \in {"attivi", "trial"}, n \in 0..Len(CustomerIds) :
          \E f \in [1..n -> FrameShapes(today)] :
             LET df == [i \in 1..n |-> FrameRow(CustomerIds[i], f[i])]
             IN  Call("filter_customers", <<filter_type, df>>,
                      filter_customers(filter_type, Returned(df)))
    /\ StoreUnchanged
    /\ UNCHANGED <<cache, session_state>>

\* the statistics page loads its summary from a table of subscriptions with
\* the price and duration of their plans
CallStatsSummary ==
    /\ ret.op = "none"
    /\ \E n \in 0..MaxRevenueRows : \E subs \in [1..n -> RevenueRows] :
          Call("get_stats_summary", <<subs>>, Returned(get_stats_summary(subs)))
    /\ StoreUnchanged
    /\ UNCHANGED <<cache, session_state>>

\* one call of get_expiring_subscriptions on the store as it is
CallExpiring ==
    /\ ret.op = "none"
    /\ \E fail \in FailSets(QueriesOf("get_expiring_subscriptions")) :
          Call("get_expiring_subscriptions", <<>>, get_expiring_subscriptions(fail))
    /\ StoreUnchanged
    /\ UNCHANGED <<cache, session_state>>

\* one call of a read function on the store as it is
CallRead ==
    /\ ret.op = "none"
    /\ \E op \in ReadOps : \E arg \in ArgsOf(op), fail \in FailSets(QueriesOf(op)) :
          Call(op, arg, Read(op, arg, fail))
    /\ StoreUnchanged
    /\ UNCHANGED <<cache, session_state>>

CallUpdateCustomer ==
    /\ ret.op = "none"
    /\ \E c \in CustomerArgs, data \in Payloads, fail \in FailSets({"update_customers"}) :
          LET r == update_customer(c, data, fail)
          IN  /\ customers' = r.customers
              /\ Call("update_customer", <<c, data>>, r.out)
    /\ UNCHANGED <<subscriptions, today, clock, cache, session_state>>

CallCancelSubscription ==
    /\ ret.op = "none"
    /\ \E id \in SubscriptionArgs, reason \in Reasons,
          fail \in FailSets({"update_subscriptions"}) :
          LET r == cancel_subscription(id, reason, clock + 1, fail)
          IN  /\ subscriptions' = r.subscriptions
              /\ Call("cancel_subscription", <<id, reason>>, r.out)
    /\ clock' = clock + 1
    /\ UNCHANGED <<customers, today, cache, session_state>>

CallCreateManualSubscription ==
    /\ ret.op = "none"
    /\ Len(subscriptions) < MaxSubs
    /\ \E c \in CustomerSet, p \in PlanRefs, ref \in PaymentRefs,
          fail \in FailSets({"service_plans", "insert_subscriptions"}) :
          LET r == create_manual_subscription(c, p, ref, clock + 1, fail)
          IN  /\ subscriptions' = r.subscriptions
              /\ Call("create_manual_subscription", <<c, p, ref>>, r.out)
    /\ clock' = clock + 1
    /\ UNCHANGED <<customers, today, cache, session_state>>

(* ------------------------- st.cache_data ------------------------------ *)

Key(op, arg) == <<op, arg>>

Cached(key) == key \in DOMAIN cache

\* what a cache hit gives: the stored value, with the stored st.error replayed
\* and no query issued
Hit(key) == [cache[key] EXCEPT !.failed = {}]

\* an entry keeps the value returned and the st.error to replay
Store(c, key, out) ==
    [k \in DOMAIN c \cup {key} |-> IF k = key THEN [out EXCEPT !.failed = {}] ELSE c[k]]

\* the store answers every query of a call, or none of them
PageFail(queries) == {{}, queries}

\* what the operator types into the forms of the page
PageReasons == {"troppo caro"}

PagePaymentRefs == {"BON-1"}

PageUpdates == {u \in Updates : u.ascendant = ""}

DetailsKey == Key("get_all_customers_details", <<>>)

\* the cached functions the customers page and the customer-detail page call
PageReadOps ==
    {"get_filtered_customers", "get_customer_subscriptions_history",
     "get_available_service_plans"}

\* the customer whose detail page is open
PageCustomer == CustomerIds[1]

PageArgsOf(op) ==
    CASE op = "get_filtered_customers" -> {<<ft>> : ft \in {"attivi", "trial"}}
      [] op = "get_customer_subscriptions_history" -> {<<PageCustomer>>}
      [] OTHER -> {<<>>}

\* a call of a cached function: a hit returns the entry; a miss runs the function
\* and stores what it returns.  get_filtered_customers calls the cached
\* get_all_customers_details, whose entry is used or made in the same way
CachedRead ==
    /\ \E op \in PageReadOps : \E arg \in PageArgsOf(op), fail \in PageFail(QueriesOf(op)) :
          LET key == Key(op, arg)
              d == IF Cached(DetailsKey) THEN Hit(DetailsKey)
                   ELSE get_all_customers_details(fail)
              out == IF op = "get_filtered_customers"
                     THEN filter_customers(arg[1], d)
                     ELSE Read(op, arg, fail)
          IN  IF Cached(key)
              THEN Call(op, arg, Hit(key)) /\ cache' = cache
              ELSE /\ Call(op, arg, out)
                   /\ cache' = IF op = "get_filtered_customers"
                               THEN Store(Store(cache, DetailsKey, d), key, out)
                               ELSE Store(cache, key, out)
    /\ StoreUnchanged
    /\ UNCHANGED session_state

\* st.cache_data.clear()
Cleared == <<>>

\* the dashboard's 'Aggiorna Dati' button
RefreshData ==
    /\ cache # Cleared
    /\ cache' = Cleared
    /\ StoreUnchanged
    /\ UNCHANGED <<ret, session_state>>

(* --------------------------- cache lifetime ---------------------------- *)

\* @st.cache_data(ttl=60) on the read functions, ttl=300 on the service plans
TtlSeconds == 60

TtlServicePlans == 300

Ttl(op) == IF op = "get_available_service_plans" THEN TtlServicePlans ELSE TtlSeconds

TimedOps == {"get_customer_stats", "get_customer_by_id", "get_available_service_plans"}

TimedArgsOf(op) == IF op = "get_customer_by_id" THEN {<<PageCustomer>>} ELSE {<<>>}

\* an entry is served until its ttl has passed
Fresh(key) == Cached(key) /\ clock - cache[key].at < Ttl(key[1])

TimedHit(key) == Outcome(cache[key].val, cache[key].reported, FALSE, {})

\* mutant of TimedStore: a value returned by an except branch is not kept
TimedStore_SkipFailures(c, key, out, t) ==
    IF out.reported THEN c
    ELSE [k \in DOMAIN c \cup {key} |->
            IF k = key THEN [val |-> out.val, reported |-> out.reported, at |-> t] ELSE c[k]]

\* the decorator keeps whatever the function returned, with the time of the call
TimedStore(c, key, out, t) ==
    [k \in DOMAIN c \cup {key} |->
        IF k = key THEN [val |-> out.val, reported |-> out.reported, at |-> t] ELSE c[k]]

\* a call of a cached function at the present time, the store failing the
\* queries in fail
TimedReadOf(op, arg, fail) ==
    /\ LET key == Key(op, arg)
       IN  IF Fresh(key)
           THEN Call(op, arg, TimedHit(key)) /\ cache' = cache
           ELSE /\ Call(op, arg, Read(op, arg, fail))
                /\ cache' = TimedStore(cache, key, Read(op, arg, fail), clock)
    /\ StoreUnchanged
    /\ UNCHANGED session_state

TimedRead ==
    \E op \in TimedOps : \E arg \in TimedArgsOf(op), fail \in PageFail(QueriesOf(op)) :
        TimedReadOf(op, arg, fail)

\* half a minute passes
Tick ==
    /\ clock < MaxCacheTicks * (TtlSeconds \div 2)
    /\ clock' = clock + (TtlSeconds \div 2)
    /\ UNCHANGED <<customers, subscriptions, today, cache, ret, session_state>>

(* ----------------------- customer-detail page ------------------------- *)

\* mutant of PageCancelSubscription: the cache is not cleared after a success
PageCancelSubscription_NoClear ==
    /\ Cached(Key("get_customer_subscriptions_history", <<PageCustomer>>))
    /\ \E reason \in PageReasons, fail \in PageFail({"update_subscriptions"}) :
       LET df_subs == cache[Key("get_customer_subscriptions_history", <<PageCustomer>>)].val
       IN  \E idx \in 1..Len(df_subs) :
              /\ df_subs[idx].is_active
              /\ LET r == cancel_subscription(df_subs[idx].id, reason, clock + 1, fail)
                 IN  /\ subscriptions' = r.subscriptions
                     /\ Call("cancel_subscription", <<df_subs[idx].id, reason>>, r.out)
                     /\ clock' = IF r.out.val THEN clock + 1 ELSE clock
                     /\ cache' = cache
    /\ UNCHANGED <<customers, today, session_state>>

\* render_subscriptions_history, 'Conferma' pressed on a row shown as active
PageCancelSubscription ==
    /\ Cached(Key("get_customer_subscriptions_history", <<PageCustomer>>))
    /\ \E reason \in PageReasons, fail \in PageFail({"update_subscriptions"}) :
       LET df_subs == cache[Key("get_customer_subscriptions_history", <<PageCustomer>>)].val
       IN  \E idx \in 1..Len(df_subs) :
              /\ df_subs[idx].is_active
              /\ LET r == cancel_subscription(df_subs[idx].id, reason, clock + 1, fail)
                 IN  /\ subscriptions' = r.subscriptions
                     /\ Call("cancel_subscription", <<df_subs[idx].id, reason>>, r.out)
                     /\ clock' = IF r.out.val THEN clock + 1 ELSE clock
                     /\ cache' = IF r.out.val THEN Cleared ELSE cache
    /\ UNCHANGED <<customers, today, session_state>>

\* render_edit_customer, the form submitted
PageSaveCustomer ==
    /\ PageCustomer \in DOMAIN customers
    /\ \E updates \in PageUpdates, fail \in PageFail({"update_customers"}) :
          LET r == update_customer(PageCustomer, updates, fail)
          IN  /\ customers' = r.customers
              /\ Call("update_customer", <<PageCustomer, updates>>, r.out)
              /\ cache' = IF r.out.val THEN Cleared ELSE cache
    /\ UNCHANGED <<subscriptions, today, clock, session_state>>

\* render_create_subscription, the form submitted with a plan of the list shown
PageCreateSubscription ==
    /\ Cached(Key("get_available_service_plans", <<>>))
    /\ Len(subscriptions) < MaxSubs
    /\ LET plans == cache[Key("get_available_service_plans", <<>>)].val
       IN  \E i \in 1..Len(plans), payment_ref \in PagePaymentRefs,
              fail \in PageFail({"service_plans", "insert_subscriptions"}) :
              LET r == create_manual_subscription(PageCustomer, plans[i].id, payment_ref,
                                                  clock + 1, fail)
              IN  /\ subscriptions' = r.subscriptions
                  /\ Call("create_manual_subscription",
                          <<PageCustomer, plans[i].id, payment_ref>>, r.out)
                  /\ clock' = IF r.out.val THEN clock + 1 ELSE clock
                  /\ cache' = IF r.out.val THEN Cleared ELSE cache
    /\ UNCHANGED <<customers, today, session_state>>

(* ------------------- the buttons of a subscription -------------------- *)

\* st.session_state.get(f'confirm_cancel_{id}', False)
ConfirmFlag(id) == IF id \in DOMAIN session_state THEN session_state[id] ELSE FALSE

\* st.session_state[f'confirm_cancel_{id}'] = v
SetFlag(id, v) ==
    [k \in DOMAIN session_state \cup {id} |-> IF k = id THEN v ELSE session_state[k]]

\* the rows of the history on screen that pass 'if is_active:'
DisplayedActiveIds ==
    LET key == Key("get_customer_subscriptions_history", <<PageCustomer>>)
    IN  IF Cached(key)
        THEN {cache[key].val[i].id : i \in {j \in 1..Len(cache[key].val) : cache[key].val[j].is_active}}
        ELSE {}

\* 'Cancella Abbonamento'
PressCancella ==
    /\ \E id \in DisplayedActiveIds : session_state' = SetFlag(id, TRUE)
    /\ UNCHANGED <<customers, subscriptions, today, clock, cache, ret>>

\* mutant of PressConferma: the button is on screen without the flag
PressConferma_NoFlag ==
    /\ \E id \in DisplayedActiveIds, reason \in PageReasons,
          fail \in PageFail({"update_subscriptions"}) :
          LET r == cancel_subscription(id, reason, clock + 1, fail)
          IN  /\ subscriptions' = r.subscriptions
              /\ Call("cancel_subscription", <<id, reason>>, r.out)
              /\ clock' = IF r.out.val THEN clock + 1 ELSE clock
              /\ cache' = IF r.out.val THEN Cleared ELSE cache
    /\ UNCHANGED <<customers, today, session_state>>

\* 'Conferma', rendered inside 'if st.session_state.get(confirm_cancel_<id>)'
PressConferma ==
    /\ \E id \in DisplayedActiveIds, reason \in PageReasons,
          fail \in PageFail({"update_subscriptions"}) :
          /\ ConfirmFlag(id)
          /\ LET r == cancel_subscription(id, reason, clock + 1, fail)
             IN  /\ subscriptions' = r.subscriptions
                 /\ Call("cancel_subscription", <<id, reason>>, r.out)
                 /\ clock' = IF r.out.val THEN clock + 1 ELSE clock
                 /\ cache' = IF r.out.val THEN Cleared ELSE cache
    /\ UNCHANGED <<customers, today, session_state>>

\* 'Annulla', rendered next to 'Conferma'
PressAnnulla ==
    /\ \E id \in DisplayedActiveIds :
          /\ ConfirmFlag(id)
          /\ session_state' = SetFlag(id, FALSE)
    /\ UNCHANGED <<customers, subscriptions, today, clock, cache, ret>>

(* ----------------------- vocabulary of the claims --------------------- *)

\* a call whose result is not the failure default of an except branch
Succeeded(op) == ret.op = op /\ ~ret.out.reported /\ ~ret.out.raised

\* a call all of whose store queries were answered
Answered(op) == ret.op = op /\ ret.out.failed = {}

RowIds(rows) == {rows[i].row.id : i \in 1..Len(rows)}

RowsOfCustomer(c) == {i \in 1..Len(subscriptions) : subscriptions[i].customer_id = c}

\* the most recently created subscription of c: greatest created_at, and the
\* first in arrival order among those that share it
MostRecent(c) ==
    CHOOSE i \in RowsOfCustomer(c) :
        /\ \A j \in RowsOfCustomer(c) : subscriptions[j].created_at <= subscriptions[i].created_at
        /\ \A j \in RowsOfCustomer(c) :
              j < i => subscriptions[j].created_at < subscriptions[i].created_at

Unexpired(s) == s.is_active /\ s.status = "active" /\ s.end_date >= today

HasPlan(s) == s.service_plan_id \in PlanIds

(* -------------------------------- C1 ---------------------------------- *)

\* C1 (as claimed): a subscription enters an active or trial result only if
\* is_active = true, status = 'active' and end_date >= today: the two counts of
\* get_customer_stats count such subscriptions only, and every row of
\* get_filtered_customers('attivi'/'trial') has an end date that is not before today
C1_ActiveMeansUnexpired ==
    /\ Succeeded("get_customer_stats") =>
          ret.out.val.clienti_attivi + ret.out.val.clienti_trial
             <= Cardinality({i \in 1..Len(subscriptions) : Unexpired(subscriptions[i])})
    /\ (Succeeded("get_filtered_customers") /\ ret.arg[1] \in {"attivi", "trial"}) =>
          \A i \in 1..Len(ret.out.val) :
              /\ ret.out.val[i].row.is_active
              /\ ret.out.val[i].row.stato_abbonamento = "active"
              /\ strptime(ret.out.val[i].row.data_scadenza) >= today

(* -------------------------------- C2 ---------------------------------- *)

\* the customers behind the rows get_customer_stats counts
CountedAttivi ==
    {active_subs[i].sub.customer_id : i \in {j \in 1..Len(active_subs) : IsPayingRow(active_subs[j])}}

CountedTrial ==
    {active_subs[i].sub.customer_id : i \in {j \in 1..Len(active_subs) : IsTrialRow(active_subs[j])}}

CountedScaduti == {expired_subs[i].customer_id : i \in 1..Len(expired_subs)}

\* C2 (as claimed): get_customer_stats counts no customer in two of
\* clienti_attivi, clienti_trial, clienti_scaduti and none twice in one of them
C2_NoDoubleCount ==
    Succeeded("get_customer_stats") =>
        /\ ret.out.val.clienti_attivi = Cardinality(CountedAttivi)
        /\ ret.out.val.clienti_trial = Cardinality(CountedTrial)
        /\ ret.out.val.clienti_scaduti = Cardinality(CountedScaduti)
        /\ CountedAttivi \cap CountedTrial = {}
        /\ CountedAttivi \cap CountedScaduti = {}
        /\ CountedTrial \cap CountedScaduti = {}

(* -------------------------------- C3 ---------------------------------- *)

\* the customer of the spec's scenario: an older expired trial, and a most
\* recent subscription that is paying, active and ends at today + 10
TrialThenPaying(c) ==
    /\ RowsOfCustomer(c) # {}
    /\ LET new == subscriptions[MostRecent(c)]
       IN  /\ new.service_plan_id = "mensile" /\ new.status = "active"
           /\ new.is_active /\ new.end_date = today + 10
           /\ \E j \in RowsOfCustomer(c) :
                 /\ subscriptions[j].created_at < new.created_at
                 /\ subscriptions[j].service_plan_id = "prova"
                 /\ subscriptions[j].status = "expired"

\* C3: when the store answers, get_all_customers_details has a row for every
\* customer, and the row of a customer with subscriptions shows the subscription
\* with the greatest created_at, the first in arrival order on a tie; the
\* scenario's customer is listed under 'attivi' and under neither 'trial' nor
\* 'scaduti'
C3_LatestSubscriptionShown ==
    /\ Answered("get_all_customers_details") =>
          \A i \in 1..Len(ret.out.val) :
              LET row == ret.out.val[i]
              IN  RowsOfCustomer(row.id) # {} =>
                      LET s == subscriptions[MostRecent(row.id)]
                      IN  /\ row.tipo_abbonamento = ServicePlans[s.service_plan_id].name
                          /\ row.is_trial = ServicePlans[s.service_plan_id].is_trial
                          /\ row.stato_abbonamento = s.status
                          /\ row.is_active = s.is_active
                          /\ row.data_inizio = Iso(s.start_date)
                          /\ row.data_scadenza = Iso(s.end_date)
    /\ Answered("get_all_customers_details") =>
          {ret.out.val[i].id : i \in 1..Len(ret.out.val)} = DOMAIN customers
    /\ Answered("get_filtered_customers") =>
          \A c \in DOMAIN customers :
              TrialThenPaying(c) =>
                  /\ ret.arg[1] = "attivi" => c \in RowIds(ret.out.val)
                  /\ ret.arg[1] \in {"trial", "scaduti"} => c \notin RowIds(ret.out.val)

(* -------------------------------- C4 ---------------------------------- *)

\* C4: when the store answers, get_filtered_customers('scaduti') lists exactly
\* the customers whose most recently created subscription has status 'expired'
C4_ScadutiAreLatestExpired ==
    (Answered("get_filtered_customers") /\ ret.arg[1] = "scaduti") =>
        RowIds(ret.out.val) =
            {c \in DOMAIN customers :
                RowsOfCustomer(c) # {} /\ subscriptions[MostRecent(c)].status = "expired"}

(* -------------------------------- C5 ---------------------------------- *)

NoSubscription(c) == RowsOfCustomer(c) = {}

\* C5: when the store answers, a customer without subscription is listed by 'totale' with plan and
\* status 'Nessuno', by none of 'attivi', 'trial', 'scaduti', and counts in
\* totale_clienti only: the other three counts are counts of subscription rows
C5_NoSubscriptionOnlyInTotal ==
    /\ (Answered("get_filtered_customers") /\ ret.arg[1] = "totale") =>
          \A c \in DOMAIN customers :
              NoSubscription(c) =>
                  \E i \in 1..Len(ret.out.val) :
                      /\ ret.out.val[i].row.id = c
                      /\ ret.out.val[i].row.tipo_abbonamento = "Nessuno"
                      /\ ret.out.val[i].row.stato_abbonamento = "Nessuno"
    /\ (Answered("get_filtered_customers") /\ ret.arg[1] \in {"attivi", "trial", "scaduti"}) =>
          \A c \in DOMAIN customers : NoSubscription(c) => c \notin RowIds(ret.out.val)
    /\ Answered("get_customer_stats") =>
          /\ ret.out.val.totale_clienti = Cardinality(DOMAIN customers)
          /\ ret.out.val.clienti_attivi + ret.out.val.clienti_trial
                = Cardinality({i \in 1..Len(subscriptions) :
                                  Unexpired(subscriptions[i]) /\ HasPlan(subscriptions[i])})
          /\ ret.out.val.clienti_scaduti
                = Cardinality({i \in 1..Len(subscriptions) : subscriptions[i].status = "expired"})

(* -------------------------------- C6 ---------------------------------- *)

\* the value an entry point returns from its except branch
DefaultOf(op) ==
    CASE op = "get_customer_stats" -> StatsDefault
      [] op = "get_horoscopes_today" -> HoroscopesTodayDefault
      [] op = "get_expiring_subscriptions" -> ExpiringDefault
      [] op \in WriteOps -> FALSE
      [] OTHER -> <<>>

OnlyViewFailed ==
    \/ ret.op = "get_expiring_subscriptions" /\ ret.out.failed = {"expiring_view"}
    \/ ret.op = "get_horoscopes_today" /\ ret.out.failed = {"zodiac_view"}

EventKinds(events) == {events[i].tipo : i \in 1..Len(events)}

C7_NullReferenceKeepsRows ==
    /\ (ret.op = "get_all_customers_details" /\ ret.out.failed = {}) =>
          /\ Len(ret.out.val) = Cardinality(DOMAIN customers)
          /\ \A i \in 1..Len(ret.out.val) :
                LET c == ret.out.val[i].id
                IN  (RowsOfCustomer(c) # {} /\ ~HasPlan(subscriptions[MostRecent(c)])) =>
                        /\ ret.out.val[i].tipo_abbonamento = "Nessuno"
                        /\ ret.out.val[i].is_trial = FALSE
    /\ (ret.op = "get_customer_subscriptions_history" /\ ret.out.failed = {}) =>
          Len(ret.out.val) = Cardinality(RowsOfCustomer(ret.arg[1]))
    /\ (ret.op = "get_expiring_subscriptions" /\ "expiring_subs" \notin ret.out.failed) =>
          Len(ret.out.val.dettagli)
             = Cardinality({i \in 1..Len(subscriptions) : IsExpiringSub(subscriptions[i])})

(* -------------------------------- C8 ---------------------------------- *)

PageMutation == PageCancelSubscription \/ PageSaveCustomer \/ PageCreateSubscription

\* C8: a mutation of the customer-detail page that returns success leaves the
\* whole cache empty, one that returns failure leaves the cache as it was; and a
\* read that is served without a reported error returns what the function
\* computes on the store as it is now, never a value of before a mutation
C8_SuccessClearsWholeCache ==
    [][/\ (ret'.op \in WriteOps /\ PageMutation) =>
             IF ret'.out.val THEN cache' = Cleared ELSE cache' = cache
       /\ (ret'.op \in PageReadOps /\ CachedRead /\ ~ret'.out.reported) =>
             ret'.out.val = Read(ret'.op, ret'.arg, {}).val]_vars

\* the history of the page's customer was in the cache, a subscription was
\* cancelled from the page, and the history read after it shows the cancellation
C8_Witness ==
    /\ ret.op = "get_customer_subscriptions_history"
    /\ ~ret.out.reported
    /\ \E i \in 1..Len(ret.out.val) :
          /\ ret.out.val[i].stato = "cancelled"
          /\ subscriptions[ret.out.val[i].id].cancelled_reason = Some("troppo caro")
    /\ DOMAIN cache = {Key("get_customer_subscriptions_history", <<PageCustomer>>)}

(* -------------------------------- C9 ---------------------------------- *)

\* C9 (as claimed): the get_filtered_customers call that follows a successful
\* create_manual_subscription(customer, plan), the store answering, lists the
\* customer under 'attivi' exactly when the plan is not a trial and under
\* 'trial' exactly when it is
C9_CreatedCustomerIsListed ==
    [][(/\ ret.op = "create_manual_subscription"
        /\ ret.out.val = TRUE
        /\ ret'.op = "get_filtered_customers"
        /\ ret'.out.failed = {}) =>
           LET listed == ret.arg[1] \in RowIds(ret'.out.val)
               trial == ServicePlans[ret.arg[2]].is_trial
           IN  /\ ret'.arg[1] = "attivi" => (listed <=> ~trial)
               /\ ret'.arg[1] = "trial" => (listed <=> trial)]_vars

(* -------------------------------- C10 --------------------------------- *)

\* C10: a successful create_manual_subscription(customer_id, plan_id,
\* payment_reference) appends exactly one subscription row: that customer and
\* plan, start_date = today, end_date = today + the plan's duration_days,
\* is_active, status 'active', payment_status 'paid', renewal_enabled false and
\* the given payment_reference; the rows that were there are unchanged
C10_CreateInsertsOneRow ==
    [][(ret.op = "none" /\ ret'.op = "create_manual_subscription" /\ ret'.out.val = TRUE) =>
          LET n == Len(subscriptions)
              new == subscriptions'[n + 1]
          IN  /\ Len(subscriptions') = n + 1
              /\ SubSeq(subscriptions', 1, n) = subscriptions
              /\ new.customer_id = ret'.arg[1]
              /\ new.service_plan_id = ret'.arg[2]
              /\ new.payment_reference = ret'.arg[3]
              /\ new.start_date = today
              /\ new.end_date = today + ServicePlans[ret'.arg[2]].duration_days
              /\ new.is_active = TRUE
              /\ new.status = "active"
              /\ new.payment_status = "paid"
              /\ new.renewal_enabled = FALSE]_vars

\* a subscription of the 7-day trial plan with a payment reference was created
\* for a customer of a store that already held a row
C10_Witness ==
    /\ ret.op = "create_manual_subscription"
    /\ ret.out.val = TRUE
    /\ ret.arg[2] = "prova"
    /\ ret.arg[3] = "BON-1"
    /\ Len(subscriptions) = 2
    /\ subscriptions[2].end_date = today + 7

(* -------------------------------- C11 --------------------------------- *)

\* C11: a call of create_manual_subscription with a plan id that resolves to no
\* service plan returns False, reports an error, raises nothing to its caller
\* and leaves the subscriptions table as it was
C11_UnknownPlanInsertsNothing ==
    [][(/\ ret.op = "none"
        /\ ret'.op = "create_manual_subscription"
        /\ ret'.arg[2] \notin PlanIds) =>
           /\ ret'.out.val = FALSE
           /\ ret'.out.reported
           /\ ~ret'.out.raised
           /\ subscriptions' = subscriptions]_vars

\* the call was made with a plan id that names no plan, on a store that holds a
\* subscription, and returned False
C11_Witness ==
    /\ ret.op = "create_manual_subscription"
    /\ ret.arg[2] = "deleted"
    /\ ret.out.val = FALSE
    /\ ret.out.failed = {"service_plans"}
    /\ Len(subscriptions) = 1

(* -------------------------------- C12 --------------------------------- *)

\* C12: after a successful cancel_subscription(id, reason) the subscription with
\* that id has is_active = false, status = 'cancelled', cancelled_at = the time
\* of the call and cancelled_reason = reason; its other fields, every other
\* subscription and every customer are as before
C12_CancelChangesOneRow ==
    [][(/\ ret.op = "none"
        /\ ret'.op = "cancel_subscription"
        /\ ret'.out.val = TRUE) =>
           /\ Len(subscriptions') = Len(subscriptions)
           /\ \A i \in 1..Len(subscriptions) :
                 subscriptions'[i] =
                    IF subscriptions[i].id = ret'.arg[1]
                    THEN [subscriptions[i] EXCEPT !.is_active = FALSE,
                                                  !.status = "cancelled",
                                                  !.cancelled_at = Some(clock'),
                                                  !.cancelled_reason = Some(ret'.arg[2])]
                    ELSE subscriptions[i]
           /\ customers' = customers]_vars

\* the first of two subscriptions that were active was cancelled with a reason,
\* and the second is still active
C12_Witness ==
    /\ ret.op = "cancel_subscription"
    /\ ret.out.val = TRUE
    /\ ret.arg = <<1, "troppo caro">>
    /\ Len(subscriptions) = 2
    /\ subscriptions[1].status = "cancelled"
    /\ subscriptions[1].cancelled_at = Some(clock)
    /\ subscriptions[1].end_date = today + 10
    /\ subscriptions[2].status = "active" /\ subscriptions[2].is_active

(* -------------------------------- C13 --------------------------------- *)

\* C13 (as claimed): cancel_subscription on a subscription that is already
\* cancelled returns success and leaves the row, its cancelled_at and
\* cancelled_reason included, as the first cancellation left it
C13_CancelIsIdempotent ==
    [][(/\ ret.op = "none"
        /\ ret'.op = "cancel_subscription"
        /\ \E i \in 1..Len(subscriptions) :
              /\ subscriptions[i].id = ret'.arg[1]
              /\ subscriptions[i].status = "cancelled"
              /\ ~subscriptions[i].is_active
              /\ subscriptions[i].cancelled_at # None
        /\ "update_subscriptions" \notin ret'.out.failed) =>
           /\ ret'.out.val = TRUE
           /\ ~ret'.out.reported
           /\ subscriptions' = subscriptions]_vars

(* -------------------------------- C14 --------------------------------- *)

\* the fields the contract lets update_customer change
MutableFields == {"name", "phone_number", "birth_place", "ascendant", "gender"}

\* C14 (as claimed): update_customer changes no customer field outside name,
\* phone number, birth place, ascendant and gender, whatever keys the payload has
C14_OnlyWhitelistedFieldsChange ==
    [][(ret.op = "none" /\ ret'.op = "update_customer") =>
           \A c \in DOMAIN customers :
               \A f \in DOMAIN customers[c] \ MutableFields :
                   customers'[c][f] = customers[c][f]]_vars

(* -------------------------------- C15 --------------------------------- *)

Count(rows, P(_)) == Cardinality({i \in 1..Len(rows) : P(rows[i])})

\* a subscription the expiring report is about: active, not cancelled, ending
\* today or within the seven days after
InWindow(s) ==
    /\ s.is_active /\ s.status = "active"
    /\ s.end_date - today >= 0 /\ s.end_date - today <= 7

EndsToday(s) == InWindow(s) /\ s.end_date = today

\* C15: in every result of get_expiring_subscriptions that is not the reported
\* failure default, on the view path and on the fallback path, oggi counts the
\* detail rows with giorni_rimasti = 0, tre_giorni those with giorni_rimasti <= 3
\* and sette_giorni all of them, so oggi <= tre_giorni <= sette_giorni =
\* len(dettagli), and each subscription in the window that ends today is in
\* all three counts
C15_BucketsOverlap ==
    (ret.op = "get_expiring_subscriptions" /\ ~ret.out.reported) =>
        LET v == ret.out.val
            Zero(d) == d.giorni_rimasti = 0
            UpToThree(d) == d.giorni_rimasti <= 3
            ending == Count(subscriptions, EndsToday)
        IN  /\ v.oggi = Count(v.dettagli, Zero)
            /\ v.tre_giorni = Count(v.dettagli, UpToThree)
            /\ v.sette_giorni = Len(v.dettagli)
            /\ v.oggi <= v.tre_giorni /\ v.tre_giorni <= v.sette_giorni
            /\ v.oggi = ending /\ v.tre_giorni >= ending /\ v.sette_giorni >= ending

\* the fallback path reported on a subscription that ends today and on one that
\* ends in seven days
C15_Witness ==
    /\ ret.op = "get_expiring_subscriptions"
    /\ ret.out.failed = {"expiring_view"}
    /\ ~ret.out.reported
    /\ ret.out.val.oggi = 1
    /\ ret.out.val.tre_giorni = 1
    /\ ret.out.val.sette_giorni = 2

(* -------------------------------- C16 --------------------------------- *)

\* C16: on either path every detail row of get_expiring_subscriptions has
\* 0 <= giorni_rimasti <= 7 and is the row of a subscription with is_active =
\* true and status = 'active' that ends on the row's end date, and there are as
\* many rows as such subscriptions: the three counts count nothing else
C16_OnlyActiveInWindow ==
    (ret.op = "get_expiring_subscriptions" /\ ~ret.out.reported) =>
        LET rows == ret.out.val.dettagli
        IN  /\ \A i \in 1..Len(rows) :
                  /\ rows[i].giorni_rimasti >= 0
                  /\ rows[i].giorni_rimasti <= 7
                  /\ \E j \in 1..Len(subscriptions) :
                        /\ InWindow(subscriptions[j])
                        /\ rows[i].end_date = Iso(subscriptions[j].end_date)
                        /\ rows[i].giorni_rimasti = subscriptions[j].end_date - today
            /\ Len(rows) = Count(subscriptions, InWindow)
            /\ ret.out.val.sette_giorni = Count(subscriptions, InWindow)

\* one row was returned by the fallback path for a store of two subscriptions
\* that end within three days, one of them cancelled but still flagged active
C16_Witness ==
    /\ ret.op = "get_expiring_subscriptions"
    /\ ret.out.failed = {"expiring_view"}
    /\ ~ret.out.reported
    /\ Len(ret.out.val.dettagli) = 1
    /\ Len(subscriptions) = 2
    /\ \E j \in 1..2 :
          /\ subscriptions[j].status = "cancelled" /\ subscriptions[j].is_active
          /\ subscriptions[j].end_date = today + 3

(* -------------------------------- C17 --------------------------------- *)

\* C17 (as claimed): dettagli is sorted ascending by giorni_rimasti, on the
\* view path and on the fallback path (the rows carry no customer id, so the
\* order of rows with equal giorni_rimasti is not part of this formula)
C17_DetailsSorted ==
    (ret.op = "get_expiring_subscriptions" /\ ~ret.out.reported) =>
        \A i, j \in 1..Len(ret.out.val.dettagli) :
            i < j => ret.out.val.dettagli[i].giorni_rimasti
                        <= ret.out.val.dettagli[j].giorni_rimasti

(* -------------------------------- C18 --------------------------------- *)

\* the customers with a currently-active subscription and both sign and
\* ascendant set
NeedsHoroscope(c) ==
    /\ customers[c].zodiac_sign # "" /\ customers[c].ascendant # ""
    /\ \E i \in RowsOfCustomer(c) : Unexpired(subscriptions[i])

\* C18 (as claimed): 'necessari' of get_horoscopes_today is the number of
\* distinct (zodiac_sign, ascendant) pairs of the customers with a
\* currently-active subscription, on the view path and on the fallback path
C18_NeededPairsOfActiveCustomers ==
    (ret.op = "get_horoscopes_today" /\ ~ret.out.reported) =>
        ret.out.val.necessari =
            Cardinality({<<customers[c].zodiac_sign, customers[c].ascendant>> :
                            c \in {x \in DOMAIN customers : NeedsHoroscope(x)}})

(* -------------------------------- C19 --------------------------------- *)

\* C19: for counts generated >= 0 and needed >= 0 the percentage, in tenths of
\* a percent, is 0 when needed = 0 and otherwise the tenth nearest to
\* generated / needed * 100; (0,0) gives 0, (5,5) gives 100.0, (3,12) gives 25.0
C19_RateRoundedToOneDecimal ==
    ret.op = "success_rate" =>
        LET generated == ret.arg[1]
            needed == ret.arg[2]
            tenths == ret.out.val
            diff == tenths * needed - 1000 * generated
        IN  /\ ~ret.out.raised /\ ~ret.out.reported
            /\ needed = 0 => tenths = 0
            /\ needed > 0 => (2 * diff <= needed /\ 2 * diff >= 0 - needed)
            /\ ret.arg = <<0, 0>> => tenths = 0
            /\ ret.arg = <<5, 5>> => tenths = 1000
            /\ ret.arg = <<3, 12>> => tenths = 250

\* 2 generated of 3 needed gave 66.7
C19_Witness ==
    /\ ret.op = "success_rate"
    /\ ret.arg = <<2, 3>>
    /\ ret.out.val = 667

(* -------------------------------- C20 --------------------------------- *)

EventsOf(events, tipo, data) ==
    Cardinality({i \in 1..Len(events) : events[i].tipo = tipo /\ events[i].data = data})

\* C20 (as claimed): for an existing customer with n subscriptions, k of them
\* with status 'expired', get_customer_timeline returns 1 + n + k events when the
\* store answers: one 'registrazione' at the customer's created_at, one
\* 'abbonamento_inizio' per subscription at its created_at, and one
\* 'abbonamento_scaduto' at the end date per expired subscription
C20_TimelineEvents ==
    (/\ ret.op = "get_customer_timeline"
     /\ ret.arg[1] \in DOMAIN customers
     /\ ret.out.failed = {}) =>
        LET c == ret.arg[1]
            events == ret.out.val
            subs == RowsOfCustomer(c)
            expired == {i \in subs : subscriptions[i].status = "expired"}
        IN  /\ Len(events) = 1 + Cardinality(subs) + Cardinality(expired)
            /\ EventsOf(events, "registrazione", Stamp(customers[c].created_at)) = 1
            /\ \A t \in {subscriptions[i].created_at : i \in subs} :
                  EventsOf(events, "abbonamento_inizio", Stamp(t))
                     = Cardinality({i \in subs : subscriptions[i].created_at = t})
            /\ \A d \in {subscriptions[i].end_date : i \in expired} :
                  EventsOf(events, "abbonamento_scaduto", Iso(d))
                     = Cardinality({i \in expired : subscriptions[i].end_date = d})

(* ------------------------------- C21 ---------------------------------- *)

RegistrationAt(events) == CHOOSE i \in 1..Len(events) : events[i].tipo = "registrazione"

\* C21 (as claimed): the events of get_customer_timeline are in non-increasing
\* order of 'data', and the registration event comes last among the events
\* whose 'data' equals its own
C21_RegistrationLastAmongEquals ==
    (/\ ret.op = "get_customer_timeline"
     /\ ret.arg[1] \in DOMAIN customers
     /\ ret.out.failed = {}) =>
        LET events == ret.out.val
            r == RegistrationAt(events)
        IN  /\ \A i, j \in 1..Len(events) : i < j => DataGE(events[i].data, events[j].data)
            /\ \A i \in 1..Len(events) : events[i].data = events[r].data => i <= r

(* ------------------------------- C22 ---------------------------------- *)

\* C22 (as claimed): every row of get_filtered_customers('attivi') and
\* ('trial') carries giorni_rimanenti = end date - today when the end date
\* parses as YYYY-MM-DD and 0 when it does not (null, 'N/A', any other text),
\* and an unparseable end date never makes the function raise
C22_UnparseableEndDateGivesZero ==
    ret.op = "filter_customers" =>
        LET df == ret.arg[2]
            expected == IF ret.arg[1] = "attivi" THEN SelectSeq(df, RowIsAttivo)
                        ELSE SelectSeq(df, RowIsTrial)
            out == ret.out.val
        IN  /\ ~ret.out.raised
            /\ Len(out) = Len(expected)
            /\ \A i \in 1..Len(out) :
                  /\ out[i].row = expected[i]
                  /\ out[i].giorni_rimanenti =
                        IF strptime_ok(expected[i].data_scadenza)
                        THEN strptime(expected[i].data_scadenza) - today
                        ELSE 0

(* ------------------------------- C23 ---------------------------------- *)

RECURSIVE SumSeq(_)
SumSeq(xs) == IF xs = <<>> THEN 0 ELSE Head(xs) + SumSeq(Tail(xs))

\* the active non-trial rows, by the validity of the plan's duration
Qualifying(subs) ==
    {i \in 1..Len(subs) : IsActivePaying(subs[i]) /\ subs[i].duration_days > 0}

Excluded(subs) ==
    {i \in 1..Len(subs) : IsActivePaying(subs[i]) /\ subs[i].duration_days <= 0}

C24_ArpuIsMrrPerCustomer ==
    ret.op = "get_stats_summary" =>
        LET subs == ret.arg[1]
            payers == {subs[i].customer_id :
                          i \in {j \in 1..Len(subs) : subs[j].is_active /\ ~subs[j].is_trial}}
        IN  /\ ~ret.out.raised
            /\ IF payers # {}
               THEN ret.out.val.arpu * Cardinality(payers) = ret.out.val.mrr
               ELSE ret.out.val.arpu = 0

\* two paying customers share a positive MRR
C24_Witness ==
    /\ ret.op = "get_stats_summary"
    /\ active_paying_count(ret.arg[1]) = 2
    /\ ret.out.val.mrr > 0
    /\ ret.out.val.arpu * 2 = ret.out.val.mrr

(* ------------------------------- C25 ---------------------------------- *)

\* the number of rows of the list a 'Visualizza' button opens, computed on the
\* store the counts were computed on
ListLength(filter_type) == Len(get_filtered_customers(filter_type, {}).val)

\* C25 (as claimed): each count of get_customer_stats equals the number of rows
\* of get_filtered_customers for the filter its 'Visualizza' button passes,
\* computed from the same store contents on the same day
C25_CountsMatchLists ==
    (ret.op = "get_customer_stats" /\ ret.out.failed = {}) =>
        /\ ret.out.val.totale_clienti = ListLength("totale")
        /\ ret.out.val.clienti_attivi = ListLength("attivi")
        /\ ret.out.val.clienti_trial = ListLength("trial")
        /\ ret.out.val.clienti_scaduti = ListLength("scaduti")

(* ------------------------------- C26 ---------------------------------- *)

\* C26: the default a cached read function returns after a store error is kept
\* in the cache like any result, and a call with the same arguments made
\* before the entry's ttl has passed and before a clear returns the kept value
\* without a query, whatever the store would answer by then
C26_FailureDefaultIsCached ==
    [][(/\ ret'.op \in TimedOps
        /\ \E fail \in PageFail(QueriesOf(ret'.op)) : TimedReadOf(ret'.op, ret'.arg, fail)) =>
          LET key == Key(ret'.op, ret'.arg)
          IN  /\ Fresh(key) =>
                    /\ ret'.out.val = cache[key].val
                    /\ ret'.out.failed = {}
                    /\ cache' = cache
              /\ (~Fresh(key) /\ ret'.out.failed # {}) =>
                    /\ ret'.out.val = DefaultOf(ret'.op)
                    /\ key \in DOMAIN cache'
                    /\ cache'[key].val = DefaultOf(ret'.op)
                    /\ cache'[key].at = clock]_vars

\* the zero dictionary served from the cache half a minute after the failure,
\* over a store that holds customers
C26_Witness ==
    /\ ret.op = "get_customer_stats"
    /\ ret.out.val = StatsDefault
    /\ ret.out.failed = {}
    /\ Cached(Key("get_customer_stats", <<>>))
    /\ clock > cache[Key("get_customer_stats", <<>>)].at
    /\ DOMAIN customers # {}

(* ------------------------------- C27 ---------------------------------- *)

\* the subscriptions of c with is_active = true and status = 'active'
ActiveRowsOf(c) ==
    {i \in RowsOfCustomer(c) : subscriptions[i].is_active /\ subscriptions[i].status = "active"}

AtMostOneActive == \A c \in CustomerSet : Cardinality(ActiveRowsOf(c)) <= 1

\* C27 (as claimed): create_manual_subscription and cancel_subscription keep
\* every customer at no more than one subscription with is_active = true and
\* status = 'active'
C27_AtMostOneActivePerCustomer ==
    [][(/\ ret.op = "none"
        /\ ret'.op \in {"create_manual_subscription", "cancel_subscription"}
        /\ AtMostOneActive) => AtMostOneActive']_vars

(* ------------------------------- C28 ---------------------------------- *)

\* the row an update is addressed to is in the store
TargetExists(op, id) ==
    IF op = "update_customer" THEN id \in DOMAIN customers
    ELSE \E i \in 1..Len(subscriptions) : subscriptions[i].id = id

\* C28 (as claimed): update_customer and cancel_subscription return True only
\* when a row with the given id existed and was updated; a call with an id that
\* no customer or subscription has returns False (ids are never removed, so the
\* row exists after the call exactly if it existed before)
C28_TrueOnlyWhenRowUpdated ==
    ret.op \in {"update_customer", "cancel_subscription"} =>
        /\ ret.out.val = TRUE => TargetExists(ret.op, ret.arg[1])
        /\ ~TargetExists(ret.op, ret.arg[1]) => ret.out.val = FALSE

(* ------------------------------- C29 ---------------------------------- *)

\* a step in which cancel_subscription was called
CancelCalled ==
    /\ ret'.op = "cancel_subscription"
    /\ (ret.op # "cancel_subscription" \/ clock' # clock \/ ret' # ret)

\* C29: on the customer-detail page cancel_subscription(id, reason) is called
\* only for a subscription displayed with is_active = true whose
\* confirm_cancel flag is set at that moment; the flag is set by 'Cancella
\* Abbonamento' alone, which like 'Annulla' (flag back to False) changes no
\* table and calls nothing; so no presses cancel a subscription unconfirmed
C29_CancelOnlyAfterConfirm ==
    [][/\ CancelCalled =>
             /\ ret'.arg[1] \in DisplayedActiveIds
             /\ ConfirmFlag(ret'.arg[1])
             /\ session_state' = session_state
       /\ session_state' # session_state =>
             /\ UNCHANGED <<customers, subscriptions, clock, cache>>
             /\ \E id \in DisplayedActiveIds :
                   \/ session_state' = SetFlag(id, TRUE)
                   \/ ConfirmFlag(id) /\ session_state' = SetFlag(id, FALSE)]_vars

\* a subscription was cancelled under its flag after the cancellation of the
\* other one had been called off with 'Annulla'
C29_Witness ==
    /\ ret.op = "cancel_subscription"
    /\ ret.out.val = TRUE
    /\ ConfirmFlag(ret.arg[1])
    /\ \E i \in 1..Len(subscriptions) :
          subscriptions[i].id = ret.arg[1] /\ subscriptions[i].status = "cancelled"
    /\ \E id \in DOMAIN session_state :
          /\ id # ret.arg[1] /\ ~session_state[id]
          /\ \E i \in 1..Len(subscriptions) :
                subscriptions[i].id = id /\ subscriptions[i].is_active

(* ------------------------------- C30 ---------------------------------- *)

\* C30 (as claimed): for all counts generated >= 0 and needed >= 0 the
\* percentage lies in [0, 100]; the dashboard reports 'Completato' exactly when
\* generati >= necessari and necessari > 0, and otherwise the number it reports
\* as missing is strictly positive
C30_RateWithinBoundsAndDelta ==
    ret.op = "success_rate" =>
        LET stats == [generati |-> ret.arg[1], necessari |-> ret.arg[2],
                      percentuale_successo |-> ret.out.val]
            shown == delta_text(stats)
        IN  /\ stats.percentuale_successo >= 0 /\ stats.percentuale_successo <= 1000
            /\ shown.completato <=> (stats.generati >= stats.necessari /\ stats.necessari > 0)
            /\ ~shown.completato => shown.mancano > 0

(* -------------------------- specification ----------------------------- *)

\* the stores the program can meet: up to MaxSubs subscription rows of every shape
Init ==
    /\ customers = InitialCustomers
    /\ today = 100
    /\ clock = MaxCreatedAt
    /\ \E n \in 0..MaxSubs : \E f \in [1..n -> SubShapes] :
          subscriptions = [i \in 1..n |-> MkSub(i, f[i], 100)]
    /\ cache = <<>>
    /\ ret = NoCall
    /\ session_state = <<>>

Next ==
    \/ CallRead
    \/ CallUpdateCustomer
    \/ CallCancelSubscription
    \/ CallCreateManualSubscription

Spec == Init /\ [][Next]_vars

\* the pages in front of the store: at most one subscription row at start, the
\* cached reads of the customers page and of the detail page of PageCustomer,
\* and the three mutations of that page
InitPage ==
    /\ customers = InitialCustomers
    /\ today = 100
    /\ clock = MaxCreatedAt
    /\ \E n \in 0..1 : \E f \in [1..n -> {sh \in SubShapes : sh.created_at = MaxCreatedAt}] :
          subscriptions = [i \in 1..n |-> MkSub(i, f[i], 100)]
    /\ cache = <<>>
    /\ ret = NoCall
    /\ session_state = <<>>

NextPage ==
    \/ CachedRead
    \/ RefreshData
    \/ PageCancelSubscription
    \/ PageSaveCustomer
    \/ PageCreateSubscription

SpecPage == InitPage /\ [][NextPage]_vars

\* get_expiring_subscriptions on the stores whose rows lie around its window
InitExpiring ==
    /\ customers = InitialCustomers
    /\ today = 100
    /\ clock = MaxCreatedAt
    /\ \E n \in 0..MaxSubs : \E f \in [1..n -> ExpiringShapes] :
          subscriptions = [i \in 1..n |-> MkSub(i, f[i], 100)]
    /\ cache = <<>>
    /\ ret = NoCall
    /\ session_state = <<>>

NextExpiring == CallExpiring

SpecExpiring == InitExpiring /\ [][NextExpiring]_vars

\* the percentage of get_horoscopes_today on every pair of counts up to MaxCount
InitRate ==
    /\ customers = InitialCustomers
    /\ today = 100
    /\ clock = MaxCreatedAt
    /\ subscriptions = <<>>
    /\ cache = <<>>
    /\ ret = NoCall
    /\ session_state = <<>>

NextRate == CallSuccessRate

SpecRate == InitRate /\ [][NextRate]_vars

\* get_filtered_customers on the DataFrames its read can hand it
InitGiorni ==
    /\ customers = InitialCustomers
    /\ today = 100
    /\ clock = MaxCreatedAt
    /\ subscriptions = <<>>
    /\ cache = <<>>
    /\ ret = NoCall
    /\ session_state = <<>>

NextGiorni == CallFilterFrame

SpecGiorni == InitGiorni /\ [][NextGiorni]_vars

\* the revenue metrics on every table of up to MaxRevenueRows subscriptions
InitRevenue ==
    /\ customers = InitialCustomers
    /\ today = 100
    /\ clock = MaxCreatedAt
    /\ subscriptions = <<>>
    /\ cache = <<>>
    /\ ret = NoCall
    /\ session_state = <<>>

NextRevenue == CallStatsSummary

SpecRevenue == InitRevenue /\ [][NextRevenue]_vars

\* the cached read functions over wall time
InitCache ==
    /\ customers = InitialCustomers
    /\ today = 100
    /\ clock = 0
    /\ subscriptions = <<>>
    /\ cache = <<>>
    /\ ret = NoCall
    /\ session_state = <<>>

NextCache ==
    \/ TimedRead
    \/ Tick
    \/ RefreshData

SpecCache == InitCache /\ [][NextCache]_vars

\* the customer-detail page of PageCustomer, button by button
InitConfirm ==
    /\ customers = InitialCustomers
    /\ today = 100
    /\ clock = MaxCreatedAt
    /\ \E n \in 0..MaxSubs :
          \E f \in [1..n -> {sh \in SubShapes : /\ sh.customer_id = PageCustomer
                                                /\ sh.created_at = MaxCreatedAt}] :
             subscriptions = [i \in 1..n |-> MkSub(i, f[i], 100)]
    /\ cache = <<>>
    /\ ret = NoCall
    /\ session_state = <<>>

NextConfirm ==
    \/ CachedRead
    \/ PressCancella
    \/ PressConferma
    \/ PressAnnulla

SpecConfirm == InitConfirm /\ [][NextConfirm]_vars

====
